---- MODULE Spec2Model ----
(***************************************************************************)
(* The sale-transaction engine of the butcher-shop application             *)
(* (src/app.py): the POST branch of new_sale, run by several cashier       *)
(* sessions against one SQLite file, next to the catalog handlers          *)
(* inventory_add, inventory_edit and inventory_delete.                     *)
(*                                                                         *)
(* Numbers.  Every REAL of the program (quantity, price, stock) is held    *)
(* as an integer number of tenths, and every product of two of them        *)
(* (line_total, total_amount) as an integer number of hundredths.  All the *)
(* values the model uses are multiples of 0.5, on which the program's      *)
(* binary floating point arithmetic is exact.                              *)
(*                                                                         *)
(* Storage.  db is the committed content of the SQLite file, the state     *)
(* every connection reads.  A connection that has executed an INSERT or    *)
(* UPDATE without commit holds the file's write lock (lock) and sees its   *)
(* own uncommitted rows in wdb; conn.commit() makes wdb the new db, and a  *)
(* connection dropped without commit leaves db as it was.  A statement     *)
(* that needs the write lock while another connection holds it waits, and  *)
(* fails with "database is locked" when its busy timeout runs out.         *)
(*                                                                         *)
(* Whole requests.  req records the last POST of new_sale that ran from    *)
(* its first statement to its last with no other request in between        *)
(* (PostSale); view records the response of the last GET handler           *)
(* (get_meat_price, inventory_list, the GET of new_sale, sale_receipt).    *)
(***************************************************************************)
EXTENDS Integers, Sequences, FiniteSets, TLC

\* ------------------------------------------------------------------ bounds
\* Longest form a cashier posts (number of item_id / quantity / unit_price rows).
MaxLines == 2
\* Number of POSTs of new_sale over a run.
MaxRequests == 2
\* Number of accepted inventory_add calls over a run.
MaxAdds == 1

\* The cashier sessions posting sales at the same time.
Sessions == {1, 2}

\* ------------------------------------------------------------ form values
\* float(): the raw strings a form field carries and what float() makes of
\* them; v is in tenths.  "abc" and "" raise ValueError.
ParseFloat(str) ==
    CASE str = "-1"   -> [ok |-> TRUE,  v |-> -10]
      [] str = "0"    -> [ok |-> TRUE,  v |-> 0]
      [] str = "5"    -> [ok |-> TRUE,  v |-> 50]
      [] str = "6"    -> [ok |-> TRUE,  v |-> 60]
      [] str = "12.5" -> [ok |-> TRUE,  v |-> 125]
      [] str = "50"   -> [ok |-> TRUE,  v |-> 500]
      [] OTHER        -> [ok |-> FALSE, v |-> 0]

\* int(item_id) of a non-blank item_id field.
ParseInt(str) ==
    CASE str = "1" -> 1
      [] str = "2" -> 2
      [] OTHER     -> 0

\* The rows a posted sale form is made of: item_ids[idx], quantities[idx],
\* unit_prices[idx].
LineInputs ==
    { [item_id |-> "1", quantity |-> "50",  unit_price |-> "12.5"],
      [item_id |-> "2", quantity |-> "5",   unit_price |-> "6"],
      [item_id |-> "",  quantity |-> "",    unit_price |-> ""],
      [item_id |-> "1", quantity |-> "0",   unit_price |-> "12.5"],
      [item_id |-> "2", quantity |-> "5",   unit_price |-> "-1"],
      [item_id |-> "1", quantity |-> "abc", unit_price |-> "12.5"] }

\* The fields a posted catalog form carries (inventory_add, inventory_edit).
CatalogInputs ==
    { [name |-> "Veal", price_per_unit |-> "6",   stock_quantity |-> "5"],
      [name |-> "Veal", price_per_unit |-> "6",   stock_quantity |-> "-1"],
      [name |-> "Veal", price_per_unit |-> "-1",  stock_quantity |-> "5"],
      [name |-> "",     price_per_unit |-> "6",   stock_quantity |-> "5"] }

\* The item ids the admin's edit and delete requests name.
CatalogIds == {1}

\* ------------------------------------------------------------------ state
VARIABLES
    db,      \* committed content of the database file
    wdb,     \* content as seen by the connection holding the write lock,
             \* NoTransaction while no write transaction is open
    lock,    \* 0, or the session whose connection has an open write transaction
    sess,    \* per session: the locals of its new_sale call
    nreq,    \* number of POSTs of new_sale so far
    req,     \* the last POST of new_sale that ran with no other request
             \* running: its form, the meat_items it read and its response
    view     \* the response of the last GET handler that ran

vars == <<db, wdb, lock, sess, nreq, req, view>>

\* The value of wdb while no connection has a write transaction open.
NoTransaction == <<>>

\* The message new_sale flashes, by kind; name is the item named in it.
NoError == [kind |-> "None", name |-> ""]
Error(kind, name) == [kind |-> kind, name |-> name]

\* cur.fetchone() of a SELECT that matched no row.
NoRow == [id |-> 0, name |-> "", unit |-> "", price_per_unit |-> 0, stock_quantity |-> 0]

\* SELECT * FROM meat_items WHERE id = ?
FetchItem(items, id) ==
    IF id \in DOMAIN items
    THEN [id |-> id, name |-> items[id].name, unit |-> items[id].unit,
          price_per_unit |-> items[id].price_per_unit,
          stock_quantity |-> items[id].stock_quantity]
    ELSE NoRow

\* ensure_sample_data: the rows seeded into an empty meat_items table.
SampleData ==
    (1 :> [name |-> "Beef",    unit |-> "kg", price_per_unit |-> 125, stock_quantity |-> 500]) @@
    (2 :> [name |-> "Chicken", unit |-> "kg", price_per_unit |-> 60,  stock_quantity |-> 800]) @@
    (3 :> [name |-> "Pork",    unit |-> "kg", price_per_unit |-> 90,  stock_quantity |-> 600]) @@
    (4 :> [name |-> "Goat",    unit |-> "kg", price_per_unit |-> 110, stock_quantity |-> 400])

\* init_db + ensure_sample_data: the tables after create_app.  item_seq and
\* sale_seq are the AUTOINCREMENT counters of meat_items and sales.  decs is
\* history: one entry per executed stock UPDATE (rows = rows it matched).
InitDb ==
    [meat_items |-> SampleData,
     item_seq   |-> 4,
     sales      |-> <<>>,
     sale_seq   |-> 0,
     sale_items |-> <<>>,
     decs       |-> <<>>]

\* The locals of new_sale.  idx is the 1-based position of the validation
\* loop; li the position of the commit loop; mut is history: the number of
\* INSERT/UPDATE statements the call has executed.
InitSess ==
    [pc |-> "idle", idx |-> 1, line_items |-> <<>>, total_amount |-> 0,
     error |-> NoError, sale_id |-> 0, li |-> 1, mut |-> 0]

\* The call has returned: its locals are gone, and what is left is its
\* response, the flashed error or (error None) the redirect to the receipt.
Returned(l, error) == [InitSess EXCEPT !.pc = "done", !.error = error]

\* No POST of new_sale has run alone yet.  form is the posted rows, items the
\* meat_items table the call read, error its flashed message, line the form
\* row its validation loop stopped at, tries the number of times in a row the
\* form has been posted.
NoRequest == [form |-> <<>>, items |-> <<>>, error |-> NoError, line |-> 0, tries |-> 0]

\* cur.fetchone() of the sales SELECT that matched no row.
NoSale == [id |-> 0, total_amount |-> 0]

\* No GET handler has run yet.  handler names the handler, status is the HTTP
\* status of its response, sale and body the rows it renders.
NoView == [handler |-> "", status |-> 0, sale |-> NoSale, body |-> <<>>]

Init ==
    /\ db = InitDb
    /\ wdb = NoTransaction
    /\ lock = 0
    /\ sess = [s \in Sessions |-> InitSess]
    /\ nreq = 0
    /\ req = NoRequest
    /\ view = NoView

\* ------------------------------------------------- validation (new_sale)
\* if qty_val <= 0 or price_val < 0
BadValue(qty_val, price_val) == qty_val <= 0 \/ price_val < 0

\* Mutant of StockCheckFails: the comparison written the wrong way round.
StockCheckFails_Reversed(qty_val, item_row) == qty_val < item_row.stock_quantity

\* if qty_val > item_row["stock_quantity"]
StockCheckFails(qty_val, item_row) == qty_val > item_row.stock_quantity

\* line_total = qty_val * price_val
LineTotal(qty_val, price_val) == qty_val * price_val

\* Mutant of AddTotal: `=` written for `+=`.
AddTotal_Overwrite(total_amount, line_total) == line_total

\* total_amount += line_total
AddTotal(total_amount, line_total) == total_amount + line_total

\* The dict appended to line_items.
LineItem(id, item_row, qty_val, price_val) ==
    [meat_item_id |-> id, name |-> item_row.name, quantity |-> qty_val,
     unit_price |-> price_val, line_total |-> LineTotal(qty_val, price_val)]

\* error = ...; break
Break(l, err) == [l EXCEPT !.error = err, !.pc = "after_loop"]

\* The end of one iteration that did not break: the next row if the form has
\* more rows, or the end of the loop.
Continue(l, more) ==
    [l EXCEPT !.idx = l.idx + 1,
              !.pc = IF more THEN "loop" ELSE "after_loop"]

\* One iteration of `for idx, item_id in enumerate(item_ids)` on the form row
\* `line`, reading meat_items as committed: the locals after it.  `more` says
\* whether item_ids has a row after this one.
ValidateLine(l, line, more, items) ==
    LET qty   == ParseFloat(line.quantity)
        price == ParseFloat(line.unit_price)
        row   == FetchItem(items, ParseInt(line.item_id))
    IN  IF line.item_id = "" THEN Continue(l, more)
        ELSE IF ~qty.ok THEN Break(l, Error("InvalidLineValue", ""))
        ELSE IF ~price.ok THEN Break(l, Error("InvalidLineValue", ""))
        ELSE IF BadValue(qty.v, price.v) THEN Break(l, Error("InvalidLineValue", ""))
        ELSE IF row.id = 0 THEN Break(l, Error("ItemNotFound", ""))
        ELSE IF StockCheckFails(qty.v, row) THEN Break(l, Error("InsufficientStock", row.name))
        ELSE Continue([l EXCEPT
                 !.total_amount = AddTotal(l.total_amount, LineTotal(qty.v, price.v)),
                 !.line_items = Append(l.line_items,
                                       LineItem(ParseInt(line.item_id), row, qty.v, price.v))],
                      more)

\* if error:
HasError(error) == error.kind # "None"

\* Mutant of AfterLoop: the `if error` return placed after the commit.
AfterLoop_CheckAfterCommit(l) ==
    IF l.pc = "after_loop" THEN [l EXCEPT !.pc = "insert_sale"] ELSE l

\* After the loop: `if error: flash(error); return render_template(...)`,
\* else on to the commit.
AfterLoop(l) ==
    IF l.pc = "after_loop"
    THEN IF HasError(l.error) THEN Returned(l, l.error)
         ELSE [l EXCEPT !.pc = "insert_sale"]
    ELSE l

\* ------------------------------------------------------ SQL statements
\* Mutant of ExecInsertSale: the id taken from a counter that the INSERT does
\* not advance.
ExecInsertSale_CounterStuck(d, total_amount, nlines) ==
    [d EXCEPT !.sales = Append(d.sales,
                  [id |-> d.sale_seq + 1, total_amount |-> total_amount,
                   lines_expected |-> nlines])]

\* INSERT INTO sales (sale_datetime, user_id, customer_name, total_amount).
\* The row keeps id and total_amount: no modelled statement reads the other
\* columns.  lines_expected is history: len(line_items) of the inserting call.
ExecInsertSale(d, total_amount, nlines) ==
    [d EXCEPT !.sale_seq = d.sale_seq + 1,
              !.sales = Append(d.sales,
                  [id |-> d.sale_seq + 1, total_amount |-> total_amount,
                   lines_expected |-> nlines])]

\* INSERT INTO sale_items (sale_id, meat_item_id, quantity, unit_price, line_total)
ExecInsertSaleItem(d, sale_id, li) ==
    [d EXCEPT !.sale_items = Append(d.sale_items,
        [sale_id |-> sale_id, meat_item_id |-> li.meat_item_id,
         quantity |-> li.quantity, unit_price |-> li.unit_price,
         line_total |-> li.line_total])]

\* Mutant of NewStock: `SET stock_quantity = ?`, the bound value stored as
\* the new stock.
NewStock_Absolute(stock_quantity, quantity) == quantity

\* SET stock_quantity = stock_quantity - ?
NewStock(stock_quantity, quantity) == stock_quantity - quantity

\* Mutant of ExecDeductStock: the UPDATE without its WHERE clause, every
\* item's stock reduced.
ExecDeductStock_AllRows(d, sale_id, li) ==
    [d EXCEPT !.decs = Append(d.decs,
                  [sale_id |-> sale_id, meat_item_id |-> li.meat_item_id,
                   quantity |-> li.quantity, rows |-> Cardinality(DOMAIN d.meat_items)]),
              !.meat_items = [i \in DOMAIN d.meat_items |->
                  [d.meat_items[i] EXCEPT !.stock_quantity =
                      NewStock(d.meat_items[i].stock_quantity, li.quantity)]]]

\* UPDATE meat_items SET stock_quantity = stock_quantity - ? WHERE id = ?
ExecDeductStock(d, sale_id, li) ==
    LET id    == li.meat_item_id
        found == id \in DOMAIN d.meat_items
        entry == [sale_id |-> sale_id, meat_item_id |-> id, quantity |-> li.quantity,
                  rows |-> IF found THEN 1 ELSE 0]
    IN  [d EXCEPT !.decs = Append(d.decs, entry),
                  !.meat_items =
                      IF found
                      THEN [d.meat_items EXCEPT ![id].stock_quantity =
                               NewStock(d.meat_items[id].stock_quantity, li.quantity)]
                      ELSE d.meat_items]

\* Mutant of Uncommitted: every statement committed as it is executed
\* (a connection in autocommit mode).
Uncommitted_Autocommit(d, w) == w

\* What the other connections read while a write transaction is open on `w`
\* and the committed content is `d`: nothing of it before conn.commit().
Uncommitted(d, w) == d

\* INSERT INTO meat_items (name, unit, price_per_unit, stock_quantity)
ExecInsertItem(d, name, unit, price_val, qty_val) ==
    [d EXCEPT !.item_seq = d.item_seq + 1,
              !.meat_items = d.meat_items @@
                  ((d.item_seq + 1) :> [name |-> name, unit |-> unit,
                                        price_per_unit |-> price_val,
                                        stock_quantity |-> qty_val])]

\* Mutant of ExecUpdateItem: the new price also written into unit_price of
\* the item's sale_items rows.
ExecUpdateItem_Reprice(d, id, name, unit, price_val, qty_val) ==
    IF id \in DOMAIN d.meat_items
    THEN [d EXCEPT !.meat_items[id] = [name |-> name, unit |-> unit,
                                       price_per_unit |-> price_val,
                                       stock_quantity |-> qty_val],
                   !.sale_items = [k \in 1..Len(d.sale_items) |->
                       IF d.sale_items[k].meat_item_id = id
                       THEN [d.sale_items[k] EXCEPT !.unit_price = price_val]
                       ELSE d.sale_items[k]]]
    ELSE d

\* UPDATE meat_items SET name = ?, unit = ?, price_per_unit = ?,
\* stock_quantity = ? WHERE id = ?
ExecUpdateItem(d, id, name, unit, price_val, qty_val) ==
    IF id \in DOMAIN d.meat_items
    THEN [d EXCEPT !.meat_items[id] = [name |-> name, unit |-> unit,
                                       price_per_unit |-> price_val,
                                       stock_quantity |-> qty_val]]
    ELSE d

\* Mutant of ExecDeleteItem: the item's sale_items rows deleted with it.
ExecDeleteItem_Cascade(d, id) ==
    [d EXCEPT !.meat_items = [i \in (DOMAIN d.meat_items) \ {id} |-> d.meat_items[i]],
              !.sale_items = SelectSeq(d.sale_items, LAMBDA r : r.meat_item_id # id)]

\* DELETE FROM meat_items WHERE id = ?
ExecDeleteItem(d, id) ==
    [d EXCEPT !.meat_items = [i \in (DOMAIN d.meat_items) \ {id} |-> d.meat_items[i]]]

\* ------------------------------------------------- new_sale, POST branch
\* A cashier posts the sale form: the locals are set up and `if not item_ids`
\* is evaluated.  The loop reads the rows of the form one by one and never
\* twice, so the model draws each row, and whether another one follows it,
\* when the loop reaches it.
Submit(s) ==
    /\ sess[s].pc \in {"idle", "done"}
    /\ nreq < MaxRequests
    /\ \E empty \in BOOLEAN :
          sess' = [sess EXCEPT ![s] =
              AfterLoop([InitSess EXCEPT
                  !.error = IF empty THEN Error("EmptyOrder", "") ELSE NoError,
                  !.pc = IF empty THEN "after_loop" ELSE "loop"])]
    /\ nreq' = nreq + 1
    /\ UNCHANGED <<db, wdb, lock, req, view>>

\* One iteration of the validation loop; its item lookup runs on a connection
\* of its own and reads the committed rows.
ValidateStep(s) ==
    /\ sess[s].pc = "loop"
    /\ \E line \in LineInputs, more \in BOOLEAN :
          /\ more => sess[s].idx < MaxLines
          /\ sess' = [sess EXCEPT ![s] =
                 AfterLoop(ValidateLine(sess[s], line, more, db.meat_items))]
    /\ UNCHANGED <<db, wdb, lock, nreq, req, view>>

\* conn = get_db(); INSERT INTO sales; sale_id = cur.lastrowid.  The INSERT
\* opens the write transaction, which needs the write lock.
InsertSale(s) ==
    /\ sess[s].pc = "insert_sale"
    /\ lock = 0
    /\ lock' = s
    /\ wdb' = ExecInsertSale(db, sess[s].total_amount, Len(sess[s].line_items))
    /\ db' = Uncommitted(db, wdb')
    /\ sess' = [sess EXCEPT ![s].sale_id = db.sale_seq + 1,
                            ![s].mut = 1,
                            ![s].li = 1,
                            ![s].pc = IF sess[s].line_items = <<>> THEN "commit"
                                      ELSE "lines"]
    /\ UNCHANGED <<nreq, req, view>>

\* The INSERT INTO sales of a call that finds the write lock held until its
\* busy timeout: sqlite3.OperationalError, the call ends in a server error.
DatabaseLocked(s) ==
    /\ sess[s].pc = "insert_sale"
    /\ lock # 0
    /\ sess' = [sess EXCEPT ![s] = Returned(sess[s], Error("ServerError", ""))]
    /\ UNCHANGED <<db, wdb, lock, nreq, req, view>>

\* One iteration of `for li in line_items`: INSERT INTO sale_items, then
\* UPDATE meat_items SET stock_quantity = stock_quantity - ?.  Both run inside
\* the open transaction, where no other connection sees a state between them.
CommitLine(s) ==
    /\ sess[s].pc = "lines"
    /\ lock = s
    /\ wdb' = ExecDeductStock(
                  ExecInsertSaleItem(wdb, sess[s].sale_id, sess[s].line_items[sess[s].li]),
                  sess[s].sale_id, sess[s].line_items[sess[s].li])
    /\ db' = Uncommitted(db, wdb')
    /\ sess' = [sess EXCEPT ![s].mut = sess[s].mut + 2,
                            ![s].li = sess[s].li + 1,
                            ![s].pc = IF sess[s].li + 1 > Len(sess[s].line_items)
                                      THEN "commit" ELSE "lines"]
    /\ UNCHANGED <<lock, nreq, req, view>>

\* conn.commit(); conn.close(); redirect to the receipt.  error is None here:
\* a call with an error has returned after the loop.
Commit(s) ==
    /\ sess[s].pc = "commit"
    /\ lock = s
    /\ db' = wdb
    /\ wdb' = NoTransaction
    /\ lock' = 0
    /\ sess' = [sess EXCEPT ![s] = Returned(sess[s], sess[s].error)]
    /\ UNCHANGED <<nreq, req, view>>

\* The call dies inside the transaction (an exception, the worker killed):
\* its connection goes away without commit and SQLite rolls back.
Crash(s) ==
    /\ sess[s].pc \in {"lines", "commit"}
    /\ lock = s
    /\ wdb' = NoTransaction
    /\ lock' = 0
    /\ sess' = [sess EXCEPT ![s] = Returned(sess[s], Error("ServerError", ""))]
    /\ UNCHANGED <<db, nreq, req, view>>

\* ------------------------------------------------------ catalog handlers
\* Mutant of CatalogError: the form checked for its name only.
CatalogError_NameOnly(f) == f.name = ""

\* The check of a posted catalog form: TRUE when the form is rejected.
CatalogError(f) ==
    LET price == ParseFloat(f.price_per_unit)
        qty   == ParseFloat(f.stock_quantity)
    IN  \/ ~price.ok
        \/ ~qty.ok
        \/ price.v < 0
        \/ qty.v < 0
        \/ f.name = ""

\* The database after the POST of inventory_add with form f.
InventoryAddPost(d, f) ==
    IF CatalogError(f) THEN d
    ELSE ExecInsertItem(d, f.name, "kg", ParseFloat(f.price_per_unit).v,
                        ParseFloat(f.stock_quantity).v)

\* The database after the POST of inventory_edit for item id with form f.
InventoryEditPost(d, id, f) ==
    IF FetchItem(d.meat_items, id).id = 0 \/ CatalogError(f) THEN d
    ELSE ExecUpdateItem(d, id, f.name, "kg", ParseFloat(f.price_per_unit).v,
                        ParseFloat(f.stock_quantity).v)

\* inventory_add, POST.  A write needs the write lock.
InventoryAdd ==
    /\ lock = 0
    /\ db.item_seq < 4 + MaxAdds
    /\ \E f \in CatalogInputs : db' = InventoryAddPost(db, f)
    /\ wdb' = NoTransaction
    /\ UNCHANGED <<lock, sess, nreq, req, view>>

\* inventory_edit, POST.
InventoryEdit ==
    /\ lock = 0
    /\ \E id \in CatalogIds, f \in CatalogInputs : db' = InventoryEditPost(db, id, f)
    /\ wdb' = NoTransaction
    /\ UNCHANGED <<lock, sess, nreq, req, view>>

\* inventory_delete, POST.
InventoryDelete ==
    /\ lock = 0
    /\ \E id \in CatalogIds :
          db' = IF FetchItem(db.meat_items, id).id = 0 THEN db
                ELSE ExecDeleteItem(db, id)
    /\ wdb' = NoTransaction
    /\ UNCHANGED <<lock, sess, nreq, req, view>>

\* ------------------------------------- new_sale, POST, run in one piece
\* The forms a cashier posts: up to MaxLines rows.
Forms == UNION {[1..n -> LineInputs] : n \in 0..MaxLines}

\* The locals when the loop is entered: `if not item_ids` has set error for a
\* form without rows, and a `for` over no rows ends at once.
Posted(form) ==
    [InitSess EXCEPT
        !.error = IF form = <<>> THEN Error("EmptyOrder", "") ELSE NoError,
        !.pc = IF form = <<>> THEN "after_loop" ELSE "loop"]

\* `for idx, item_id in enumerate(item_ids)` run to its end or to its break,
\* every lookup reading the same meat_items.
RECURSIVE ValidateForm(_, _, _)
ValidateForm(l, form, items) ==
    IF l.pc # "loop" THEN l
    ELSE ValidateForm(ValidateLine(l, form[l.idx], l.idx < Len(form), items),
                      form, items)

\* `for li in line_items`: INSERT INTO sale_items and the stock UPDATE of
\* every line, in order.
RECURSIVE CommitLines(_, _, _)
CommitLines(d, sale_id, line_items) ==
    IF line_items = <<>> THEN d
    ELSE CommitLines(ExecDeductStock(ExecInsertSaleItem(d, sale_id, Head(line_items)),
                                     sale_id, Head(line_items)),
                     sale_id, Tail(line_items))

\* INSERT INTO sales, the loop over line_items and conn.commit().
CommitSale(d, l) ==
    CommitLines(ExecInsertSale(d, l.total_amount, Len(l.line_items)),
                d.sale_seq + 1, l.line_items)

\* A whole POST of new_sale on `form` while no other request runs; tries is
\* the number of times in a row the form has now been posted.
PostSale(form, tries) ==
    LET v == ValidateForm(Posted(form), form, db.meat_items)
        l == AfterLoop(v)
    IN  /\ lock = 0
        /\ nreq < MaxRequests
        /\ db' = IF l.pc = "insert_sale" THEN CommitSale(db, l) ELSE db
        /\ req' = [form |-> form, items |-> db.meat_items, error |-> l.error,
                   line |-> v.idx, tries |-> tries]
        /\ nreq' = nreq + 1
        /\ UNCHANGED <<wdb, lock, sess, view>>

\* A cashier posts a sale form.
SubmitSale == \E form \in Forms : PostSale(form, 1)

\* The cashier posts the same form once more.
Resubmit == req.tries > 0 /\ PostSale(req.form, req.tries + 1)

\* ---------------------------------------------------------- GET handlers
\* The place of a name in ORDER BY name ASC.
NameRank(name) ==
    CASE name = ""        -> 0
      [] name = "Beef"    -> 1
      [] name = "Chicken" -> 2
      [] name = "Goat"    -> 3
      [] name = "Pork"    -> 4
      [] name = "Veal"    -> 5

\* SELECT * FROM meat_items ORDER BY name ASC, over the items with ids in S;
\* rows of equal name come in id order.
RECURSIVE OrderByName(_, _)
OrderByName(items, S) ==
    IF S = {} THEN <<>>
    ELSE LET first == CHOOSE i \in S : \A j \in S :
                          \/ NameRank(items[i].name) < NameRank(items[j].name)
                          \/ /\ NameRank(items[i].name) = NameRank(items[j].name)
                             /\ i <= j
         IN  <<FetchItem(items, first)>> \o OrderByName(items, S \ {first})

\* SELECT s.*, u.username FROM sales s JOIN users u ... WHERE s.id = ?
\* (no handler removes a user, so the join drops no sale).
FetchSale(d, sale_id) ==
    IF \E k \in 1..Len(d.sales) : d.sales[k].id = sale_id
    THEN LET k == CHOOSE k \in 1..Len(d.sales) : d.sales[k].id = sale_id
         IN  [id |-> sale_id, total_amount |-> d.sales[k].total_amount]
    ELSE NoSale

\* SELECT si.*, m.name, m.unit FROM sale_items si
\* JOIN meat_items m ON si.meat_item_id = m.id WHERE si.sale_id = ?
ReceiptItems(d, sale_id) ==
    LET joined == SelectSeq(d.sale_items,
                      LAMBDA r : r.sale_id = sale_id /\ r.meat_item_id \in DOMAIN d.meat_items)
    IN  [k \in 1..Len(joined) |->
            [sale_id |-> joined[k].sale_id, meat_item_id |-> joined[k].meat_item_id,
             quantity |-> joined[k].quantity, unit_price |-> joined[k].unit_price,
             line_total |-> joined[k].line_total,
             name |-> d.meat_items[joined[k].meat_item_id].name,
             unit |-> d.meat_items[joined[k].meat_item_id].unit]]

\* The sale ids a receipt is asked for.
ReceiptIds == 1..MaxRequests

\* Mutant of GetMeatPrice: a lookup that creates the item it does not find.
GetMeatPrice_GetOrCreate ==
    /\ lock = 0
    /\ \E id \in CatalogIds :
          LET row == FetchItem(db.meat_items, id)
          IN  /\ view' = [handler |-> "get_meat_price",
                          status |-> IF row.id = 0 THEN 404 ELSE 200,
                          sale |-> NoSale,
                          body |-> IF row.id = 0 THEN <<>> ELSE <<row>>]
              /\ db' = IF row.id = 0 THEN ExecInsertItem(db, "", "kg", 0, 0) ELSE db
    /\ UNCHANGED <<wdb, lock, sess, nreq, req>>

\* get_meat_price: the item as JSON, or 404.
GetMeatPrice ==
    /\ \E id \in CatalogIds :
          LET row == FetchItem(db.meat_items, id)
          IN  view' = [handler |-> "get_meat_price",
                       status |-> IF row.id = 0 THEN 404 ELSE 200,
                       sale |-> NoSale,
                       body |-> IF row.id = 0 THEN <<>> ELSE <<row>>]
    /\ UNCHANGED <<db, wdb, lock, sess, nreq, req>>

\* inventory_list
InventoryList ==
    /\ view' = [handler |-> "inventory_list", status |-> 200, sale |-> NoSale,
                body |-> OrderByName(db.meat_items, DOMAIN db.meat_items)]
    /\ UNCHANGED <<db, wdb, lock, sess, nreq, req>>

\* new_sale, GET: the form with the items to choose from.
NewSaleForm ==
    /\ view' = [handler |-> "new_sale", status |-> 200, sale |-> NoSale,
                body |-> OrderByName(db.meat_items, DOMAIN db.meat_items)]
    /\ UNCHANGED <<db, wdb, lock, sess, nreq, req>>

\* sale_receipt: the sale and its lines, or the redirect to the dashboard
\* when there is no such sale.
SaleReceipt ==
    /\ \E sale_id \in ReceiptIds :
          LET sale == FetchSale(db, sale_id)
          IN  view' = [handler |-> "sale_receipt",
                       status |-> IF sale.id = 0 THEN 302 ELSE 200,
                       sale |-> sale,
                       body |-> IF sale.id = 0 THEN <<>> ELSE ReceiptItems(db, sale_id)]
    /\ UNCHANGED <<db, wdb, lock, sess, nreq, req>>

\* ------------------------------------------------------- specifications
SaleStep ==
    \E s \in Sessions :
        \/ Submit(s)
        \/ ValidateStep(s)
        \/ InsertSale(s)
        \/ DatabaseLocked(s)
        \/ CommitLine(s)
        \/ Commit(s)
        \/ Crash(s)

CatalogStep == InventoryAdd \/ InventoryEdit \/ InventoryDelete

Next == SaleStep \/ CatalogStep

\* The cashier sessions and the admin's catalog handlers.
Spec == Init /\ [][Next]_vars

\* The cashier sessions alone: no catalog operation runs.
SpecSales == Init /\ [][SaleStep]_vars

ReadStep == GetMeatPrice \/ InventoryList \/ NewSaleForm \/ SaleReceipt

\* One cashier's new_sale calls.
CounterStep ==
    \E s \in {CHOOSE s \in Sessions : TRUE} :
        \/ Submit(s)
        \/ ValidateStep(s)
        \/ InsertSale(s)
        \/ CommitLine(s)
        \/ Commit(s)
        \/ Crash(s)

BackOfficeStep == CounterStep \/ CatalogStep

\* One cashier and the admin's catalog handlers.
SpecBackOffice == Init /\ [][BackOfficeStep]_vars

DeskStep == CounterStep \/ InventoryEdit \/ InventoryDelete \/ ReadStep

\* One cashier, the admin editing and deleting items, and the GET handlers.
SpecDesk == Init /\ [][DeskStep]_vars

SerialStep == SubmitSale \/ Resubmit \/ InventoryDelete

\* Sales that run one at a time, each in one piece, between deletions of
\* catalog items.
SpecSerial == Init /\ [][SerialStep]_vars

\* ------------------------------------------------------------- ledger
\* The sale_items rows of sale `id`, in insertion order.
SaleItemsOf(d, id) == SelectSeq(d.sale_items, LAMBDA r : r.sale_id = id)

\* The sale_items rows that name item `i`.
SaleItemsFor(d, i) == SelectSeq(d.sale_items, LAMBDA r : r.meat_item_id = i)

\* The executed stock UPDATEs of sale `id`.
DecsOf(d, id) == SelectSeq(d.decs, LAMBDA e : e.sale_id = id)

RECURSIVE SumLineTotal(_)
SumLineTotal(rows) ==
    IF rows = <<>> THEN 0 ELSE Head(rows).line_total + SumLineTotal(Tail(rows))

RECURSIVE SumQtyTimesPrice(_)
SumQtyTimesPrice(rows) ==
    IF rows = <<>> THEN 0
    ELSE Head(rows).quantity * Head(rows).unit_price + SumQtyTimesPrice(Tail(rows))

RECURSIVE SumQuantity(_)
SumQuantity(rows) ==
    IF rows = <<>> THEN 0 ELSE Head(rows).quantity + SumQuantity(Tail(rows))

IsPrefix(a, b) == Len(a) <= Len(b) /\ \A k \in 1..Len(a) : a[k] = b[k]

SaleIds(d) == {d.sales[k].id : k \in 1..Len(d.sales)}

\* The kinds of SaleError.
SaleErrors == {"EmptyOrder", "InvalidLineValue", "ItemNotFound", "InsufficientStock"}

\* ------------------------------------------------------------- claims
\* C1: in every reachable state every item's stock_quantity is >= 0, under
\* any interleaving of sales and catalog operations.
C1_StockNeverNegative ==
    \A i \in DOMAIN db.meat_items : db.meat_items[i].stock_quantity >= 0

\* C2: of the calls that each request, in a single line, quantity q of an
\* item whose stock is exactly q, at most one commits: never do two such
\* sales succeed.  With no catalog operation the stock of an item is exactly
\* q only while it has its seeded value.
C2_NeverBothSucceed ==
    \A i \in DOMAIN SampleData :
        Cardinality({k \in 1..Len(db.sales) :
            LET rows == SaleItemsOf(db, db.sales[k].id)
            IN  /\ Len(rows) = 1
                /\ rows[1].meat_item_id = i
                /\ rows[1].quantity = SampleData[i].stock_quantity}) <= 1

C4_ErrorLeavesStoreUnchanged ==
    [][\A s \in Sessions :
          /\ (sess'[s] # sess[s] /\ sess'[s].pc = "done"
                  /\ sess'[s].error.kind \in SaleErrors)
             => (sess[s].mut = 0 /\ db' = db /\ wdb' = wdb /\ lock' = lock)
          /\ (sess'[s] # sess[s] /\ sess'[s].pc = "loop")
             => (db' = db /\ wdb' = wdb /\ lock' = lock)]_vars

\* C4 witness: a call was rejected on a later row, after a valid one, while
\* sales are in the ledger.
C4_Witness ==
    \E s \in Sessions :
        /\ sess[s].pc = "done"
        /\ sess[s].error.kind = "InsufficientStock"
        /\ db.sales # <<>>

\* C5: every persisted sale's total_amount is the sum of line_total over its
\* own sale_items rows, which is the sum of quantity * unit_price over them.
C5_TotalIsSumOfLines ==
    \A k \in 1..Len(db.sales) :
        LET rows == SaleItemsOf(db, db.sales[k].id)
        IN  /\ db.sales[k].total_amount = SumLineTotal(rows)
            /\ db.sales[k].total_amount = SumQtyTimesPrice(rows)

\* C5 witness: a persisted sale of two lines with different line totals.
C5_Witness ==
    \E k \in 1..Len(db.sales) :
        LET rows == SaleItemsOf(db, db.sales[k].id)
        IN  /\ Len(rows) = 2
            /\ rows[1].line_total # rows[2].line_total
            /\ db.sales[k].total_amount > rows[1].line_total

\* C6: with no catalog operation, each item's stock is its initial value minus
\* the quantities of all committed sale_items rows that name it.
C6_NoLostUpdate ==
    \A i \in DOMAIN db.meat_items :
        db.meat_items[i].stock_quantity =
            SampleData[i].stock_quantity - SumQuantity(SaleItemsFor(db, i))

\* C6 witness: two committed sales have sold the same item.
C6_Witness ==
    \E i \in DOMAIN db.meat_items, j, k \in 1..Len(db.sale_items) :
        /\ db.sale_items[j].sale_id # db.sale_items[k].sale_id
        /\ db.sale_items[j].meat_item_id = i
        /\ db.sale_items[k].meat_item_id = i

\* C7: every stock decrement of a commit is applied to a stock value that is
\* >= the decremented quantity (the stock check is made again in the commit).
C7_DecrementWithinStock ==
    [][\A s \in Sessions :
          (lock = s /\ lock' = s) =>
              \A i \in DOMAIN wdb.meat_items :
                  wdb'.meat_items[i].stock_quantity < wdb.meat_items[i].stock_quantity
                  => wdb'.meat_items[i].stock_quantity >= 0]_vars

\* C8: every persisted sale owns at least one sale_items row.
C8_SaleHasLines ==
    \A k \in 1..Len(db.sales) : SaleItemsOf(db, db.sales[k].id) # <<>>

\* The form rows that pass the value check, with the quantity and the item
\* id each of them asks for.
WellFormedLines ==
    {line \in LineInputs :
        /\ line.item_id # ""
        /\ ParseFloat(line.quantity).ok
        /\ ParseFloat(line.unit_price).ok
        /\ ParseFloat(line.quantity).v > 0
        /\ ParseFloat(line.unit_price).v >= 0}

QuantityOf == [line \in WellFormedLines |-> ParseFloat(line.quantity).v]

ItemIdOf == [line \in WellFormedLines |-> ParseInt(line.item_id)]

\* A well-formed row whose item exists and whose quantity exceeds the item's
\* committed stock.
ExceedsStock(line, items) ==
    /\ ItemIdOf[line] \in DOMAIN items
    /\ QuantityOf[line] > items[ItemIdOf[line]].stock_quantity

\* C9: when the validation loop reaches, at any position, a row whose
\* quantity exceeds the item's current stock, the call returns
\* InsufficientStock naming that item, having written nothing: no row, and
\* no stock change for the items of its earlier rows either.
C9_OverStockRejected ==
    [][\A s \in Sessions :
          (sess[s].pc = "loop" /\ sess'[s] # sess[s]) =>
              \A line \in WellFormedLines :
                  ( /\ ExceedsStock(line, db.meat_items)
                    /\ \E more \in BOOLEAN :
                          sess'[s] = AfterLoop(ValidateLine(sess[s], line, more,
                                                            db.meat_items)) )
                  => /\ sess'[s].pc = "done"
                     /\ sess'[s].error =
                            Error("InsufficientStock",
                                  db.meat_items[ItemIdOf[line]].name)
                     /\ sess[s].mut = 0
                     /\ db' = db
                     /\ wdb' = wdb]_vars

\* C9 witness: a call was rejected for Beef's stock while another item's
\* stock is untouched and Beef's stock is what the ledger left of it.
C9_Witness ==
    \E s \in Sessions :
        /\ sess[s].pc = "done"
        /\ sess[s].error = Error("InsufficientStock", "Beef")
        /\ db.sale_items # <<>>
        /\ db.meat_items[2].stock_quantity = SampleData[2].stock_quantity

\* C10: the sales and sale_items tables only grow: no step changes or
\* removes a row that is in them.
C10_AppendOnlyLedger ==
    [][IsPrefix(db.sales, db'.sales) /\ IsPrefix(db.sale_items, db'.sale_items)]_vars

\* C10 witness: an item was sold and then edited, or deleted, and a later
\* sale was committed.
C10_Witness ==
    /\ Len(db.sales) >= 2
    /\ \E k \in 1..Len(db.sale_items) :
          /\ db.sale_items[k].sale_id = db.sales[1].id
          /\ \/ db.sale_items[k].meat_item_id \notin DOMAIN db.meat_items
             \/ db.meat_items[db.sale_items[k].meat_item_id].price_per_unit
                    # SampleData[db.sale_items[k].meat_item_id].price_per_unit

\* C11: every committed sale_items row comes with a stock UPDATE that found
\* its item: a commit whose item is gone by then fails and persists nothing.
C11_CommittedLineDecremented ==
    \A k \in 1..Len(db.decs) : db.decs[k].rows = 1

RequestLines(form) == SelectSeq(form, LAMBDA line : line.item_id # "")

\* The quantity the lines ask of item i.
RECURSIVE QuantityAsked(_, _)
QuantityAsked(lines, i) ==
    IF lines = <<>> THEN 0
    ELSE (IF ParseInt(Head(lines).item_id) = i THEN ParseFloat(Head(lines).quantity).v
          ELSE 0) + QuantityAsked(Tail(lines), i)

\* C13: a sale that runs alone and succeeds reduces the stock of every item
\* by the quantity its lines ask of that item (by nothing for an item no line
\* names), leaves name, unit and price_per_unit of every item as they were,
\* and appends one sale_items row per line of the form, in the form's order,
\* with the line's item, quantity and price.
C13_SaleFrame ==
    [][(nreq' = nreq + 1 /\ req'.error = NoError) =>
          LET lines == RequestLines(req'.form)
              old   == Len(db.sale_items)
          IN  /\ DOMAIN db'.meat_items = DOMAIN db.meat_items
              /\ \A i \in DOMAIN db.meat_items :
                    /\ db'.meat_items[i].stock_quantity =
                           db.meat_items[i].stock_quantity - QuantityAsked(lines, i)
                    /\ db'.meat_items[i].name = db.meat_items[i].name
                    /\ db'.meat_items[i].unit = db.meat_items[i].unit
                    /\ db'.meat_items[i].price_per_unit = db.meat_items[i].price_per_unit
              /\ IsPrefix(db.sale_items, db'.sale_items)
              /\ Len(db'.sale_items) = old + Len(lines)
              /\ \A k \in 1..Len(lines) :
                    /\ db'.sale_items[old + k].sale_id = db'.sale_seq
                    /\ db'.sale_items[old + k].meat_item_id = ParseInt(lines[k].item_id)
                    /\ db'.sale_items[old + k].quantity = ParseFloat(lines[k].quantity).v
                    /\ db'.sale_items[old + k].unit_price = ParseFloat(lines[k].unit_price).v]_vars

\* C13 witness: a sale of 50 Beef and 5 Chicken has run alone: Beef is at 0,
\* Chicken at 75 (80 - 5), Pork and Goat where they were.
C13_Witness ==
    /\ req.error = NoError
    /\ Len(RequestLines(req.form)) = 2
    /\ Len(db.sale_items) = 2
    /\ db.meat_items[1].stock_quantity = 0
    /\ db.meat_items[2].stock_quantity = 750
    /\ db.meat_items[3] = SampleData[3]
    /\ db.meat_items[4] = SampleData[4]

\* The rows of a form that name an item and carry a quantity <= 0 or a
\* price < 0.
BadValueRows(form) ==
    {k \in 1..Len(form) :
        /\ form[k].item_id # ""
        /\ ParseFloat(form[k].quantity).ok
        /\ ParseFloat(form[k].unit_price).ok
        /\ \/ ParseFloat(form[k].quantity).v <= 0
           \/ ParseFloat(form[k].unit_price).v < 0}

\* C14: a form with a line of quantity <= 0 or price < 0 is rejected with
\* InvalidLineValue, the error names the item of such a line, and nothing is
\* written.
C14_BadValueRejectedNamingItem ==
    [][(nreq' = nreq + 1 /\ BadValueRows(req'.form) # {}) =>
          /\ req'.error.kind = "InvalidLineValue"
          /\ \E k \in BadValueRows(req'.form) :
                /\ ParseInt(req'.form[k].item_id) \in DOMAIN db.meat_items
                /\ req'.error.name = db.meat_items[ParseInt(req'.form[k].item_id)].name
          /\ db' = db]_vars

\* The error kind of a form when the checks run one after the other, each
\* over all lines in order: the line list, then the values of every line,
\* then the item of every line, then the stock of every line.
CheckByCheck(form, items) ==
    LET lines == RequestLines(form)
        N     == 1..Len(lines)
        qty(k)   == ParseFloat(lines[k].quantity)
        price(k) == ParseFloat(lines[k].unit_price)
        id(k)    == ParseInt(lines[k].item_id)
    IN  IF form = <<>> THEN "EmptyOrder"
        ELSE IF \E k \in N : ~qty(k).ok \/ ~price(k).ok \/ qty(k).v <= 0 \/ price(k).v < 0
             THEN "InvalidLineValue"
        ELSE IF \E k \in N : id(k) \notin DOMAIN items THEN "ItemNotFound"
        ELSE IF \E k \in N : qty(k).v > items[id(k)].stock_quantity
             THEN "InsufficientStock"
        ELSE "None"

\* C15: the error a call reports is the one met first when the checks run in
\* that order, check by check; so a form whose first line exceeds the stock
\* and whose second line has a quantity <= 0 is rejected with
\* InvalidLineValue.
C15_ErrorInCheckOrder ==
    [][nreq' = nreq + 1 => req'.error.kind = CheckByCheck(req'.form, db.meat_items)]_vars

\* C16: a step in which a GET handler (get_meat_price, inventory_list, the
\* GET of new_sale, sale_receipt) answers changes no row of meat_items, sales
\* or sale_items, committed or in an open transaction, whether the id it is
\* asked for exists or not.
C16_LookupsChangeNothing ==
    [][view' # view => (db' = db /\ wdb' = wdb /\ lock' = lock)]_vars

\* C16 witness: get_meat_price has answered 404 for a deleted item while the
\* ledger holds rows.
C16_Witness ==
    /\ view.handler = "get_meat_price"
    /\ view.status = 404
    /\ db.sale_items # <<>>

\* C17: a sale that runs alone leaves no stock negative that was not
\* negative before it, and a form whose lines ask of one item more than its
\* stock in total is rejected with InsufficientStock, also when each line
\* alone is within the stock.
C17_SumOfLinesWithinStock ==
    [][nreq' = nreq + 1 =>
          LET lines == RequestLines(req'.form)
          IN  /\ \A i \in DOMAIN db'.meat_items :
                    (i \in DOMAIN db.meat_items /\ db.meat_items[i].stock_quantity >= 0)
                    => db'.meat_items[i].stock_quantity >= 0
              /\ ( /\ \A k \in 1..Len(lines) :
                        /\ lines[k] \in WellFormedLines
                        /\ ItemIdOf[lines[k]] \in DOMAIN db.meat_items
                        /\ ~ExceedsStock(lines[k], db.meat_items)
                   /\ \E i \in DOMAIN db.meat_items :
                        QuantityAsked(lines, i) > db.meat_items[i].stock_quantity )
                 => req'.error.kind = "InsufficientStock"]_vars

\* C18: every committed sale_items row has line_total = quantity * unit_price,
\* and its unit_price is the price a posted row gave for that item and
\* quantity, whatever the item's price_per_unit is or has become.
C18_LineTotalIsQtyTimesPrice ==
    \A k \in 1..Len(db.sale_items) :
        LET r == db.sale_items[k]
        IN  /\ r.line_total = r.quantity * r.unit_price
            /\ \E line \in WellFormedLines :
                  /\ ItemIdOf[line] = r.meat_item_id
                  /\ QuantityOf[line] = r.quantity
                  /\ ParseFloat(line.unit_price).v = r.unit_price

\* C18 witness: a committed row of an item that is still in the catalog, at
\* a unit_price that is not the item's price_per_unit (the price was edited).
C18_Witness ==
    \E k \in 1..Len(db.sale_items) :
        LET r == db.sale_items[k]
        IN  /\ r.meat_item_id \in DOMAIN db.meat_items
            /\ db.meat_items[r.meat_item_id].price_per_unit # r.unit_price
            /\ r.line_total = r.quantity * r.unit_price

\* The catalog forms with a negative price, a negative stock or no name.
IllFormed(f) ==
    \/ f.name = ""
    \/ ParseFloat(f.price_per_unit).ok /\ ParseFloat(f.price_per_unit).v < 0
    \/ ParseFloat(f.stock_quantity).ok /\ ParseFloat(f.stock_quantity).v < 0

\* The items of e that are not in d, or not as they are in d.
ChangedItems(d, e) ==
    {i \in DOMAIN e.meat_items :
        i \notin DOMAIN d.meat_items \/ e.meat_items[i] # d.meat_items[i]}

\* C19: in every reachable state, inventory_add and inventory_edit leave the
\* database as it is when the form has a negative price, a negative stock or
\* no name; an accepted form stores a price >= 0 and a stock >= 0, removes no
\* item and touches no sale; an add changes no item that exists, and an edit
\* changes no item but the one with its id.
C19_CatalogStaysWellFormed ==
    \A f \in CatalogInputs :
        LET added == InventoryAddPost(db, f)
        IN  /\ IllFormed(f) => added = db
            /\ DOMAIN db.meat_items \subseteq DOMAIN added.meat_items
            /\ ChangedItems(db, added) \cap DOMAIN db.meat_items = {}
            /\ \A i \in ChangedItems(db, added) :
                  /\ added.meat_items[i].price_per_unit >= 0
                  /\ added.meat_items[i].stock_quantity >= 0
            /\ added.sales = db.sales /\ added.sale_items = db.sale_items
            /\ \A id \in CatalogIds :
                  LET edited == InventoryEditPost(db, id, f)
                  IN  /\ IllFormed(f) => edited = db
                      /\ DOMAIN edited.meat_items = DOMAIN db.meat_items
                      /\ ChangedItems(db, edited) \subseteq {id}
                      /\ \A i \in ChangedItems(db, edited) :
                            /\ edited.meat_items[i].price_per_unit >= 0
                            /\ edited.meat_items[i].stock_quantity >= 0
                      /\ edited.sales = db.sales /\ edited.sale_items = db.sale_items

\* C19 witness: an add and an edit have been accepted (item 5 exists, item 1
\* carries the edited values) next to untouched items and a sale in the
\* ledger, and a form with a negative stock would now be turned down.
C19_Witness ==
    /\ 5 \in DOMAIN db.meat_items
    /\ 1 \in DOMAIN db.meat_items
    /\ db.meat_items[1].name = "Veal"
    /\ db.meat_items[2].name = "Chicken"
    /\ db.sales # <<>>
    /\ \E f \in CatalogInputs :
          /\ ParseFloat(f.stock_quantity).v < 0
          /\ InventoryEditPost(db, 1, f) = db

\* C20: whatever has been done to the catalog since, the receipt of every
\* committed sale lists all sale_items rows of the sale, and the line totals
\* on a rendered receipt add up to the sale's total_amount.
C20_ReceiptShowsAllLines ==
    /\ \A k \in 1..Len(db.sales) :
          Len(ReceiptItems(db, db.sales[k].id)) = Len(SaleItemsOf(db, db.sales[k].id))
    /\ (view.handler = "sale_receipt" /\ view.status = 200)
       => SumLineTotal(view.body) = view.sale.total_amount

\* C21: the sales rows carry pairwise distinct ids that increase in commit
\* order, every committed sale_items row names exactly one sales row, and
\* the rows a call has written in its open transaction are one sales row
\* with an id above every committed one and sale_items rows that all carry
\* that id: so a sale's lines are the ones its own call inserted.
C21_LedgerReferences ==
    /\ \A j, k \in 1..Len(db.sales) : j < k => db.sales[j].id < db.sales[k].id
    /\ \A k \in 1..Len(db.sales) : db.sales[k].id <= db.sale_seq
    /\ \A k \in 1..Len(db.sale_items) :
          Cardinality({j \in 1..Len(db.sales) :
                          db.sales[j].id = db.sale_items[k].sale_id}) = 1
    /\ \A s \in Sessions :
          lock = s =>
              /\ Len(wdb.sales) = Len(db.sales) + 1
              /\ IsPrefix(db.sales, wdb.sales)
              /\ wdb.sales[Len(wdb.sales)].id = sess[s].sale_id
              /\ \A k \in 1..Len(db.sales) : db.sales[k].id < sess[s].sale_id
              /\ IsPrefix(db.sale_items, wdb.sale_items)
              /\ \A k \in (Len(db.sale_items) + 1)..Len(wdb.sale_items) :
                    wdb.sale_items[k].sale_id = sess[s].sale_id

\* C21 witness: two cashiers have each committed a sale with lines, the
\* second after validating while the first was not yet committed or after
\* it, and the two sales have different ids.
C21_Witness ==
    /\ Len(db.sales) = 2
    /\ db.sales[1].id # db.sales[2].id
    /\ SaleItemsOf(db, db.sales[1].id) # <<>>
    /\ SaleItemsOf(db, db.sales[2].id) # <<>>
    /\ \A s \in Sessions : sess[s].pc = "done" /\ sess[s].error = NoError

====
